---- MODULE Spec2Model ----
(***************************************************************************)
(* Verification model of the Mermaid validator agent of src/src/cli.js:    *)
(* extractMermaidBlocks, detectMermaidType, validateMermaidSyntax,          *)
(* validatorAgent, runGeminiPrompt and the analyze / askForFollowUp flow    *)
(* that calls them.                                                         *)
(*                                                                          *)
(* Text is a sequence of lexemes.  Every punctuation character, blank and   *)
(* line feed is a lexeme of its own (BT is the backtick, DQ the double      *)
(* quote, NL the line feed, SP the blank); a run of letters is one lexeme   *)
(* (mermaid, graph, classDiagram, A).                                       *)
(* String primitives of JavaScript (trim, split, includes, startsWith,      *)
(* toLowerCase, the regular expressions) are defined on such sequences by   *)
(* what they do on the characters.                                          *)
(***************************************************************************)
EXTENDS Naturals, Integers, Sequences, FiniteSets, TLC

NL == "\n"
SP == " "
BT == "bt"
DQ == "dq"

\* ----------------------------------------------------------------------
\* JavaScript string primitives on lexeme sequences
\* ----------------------------------------------------------------------

\* String.prototype.trim strips white space at both ends.
IsSpace(c) == c \in {SP, NL, "\t"}

RECURSIVE TrimStart(_)
TrimStart(s) ==
  IF s # <<>> /\ IsSpace(Head(s)) THEN TrimStart(Tail(s)) ELSE s

RECURSIVE TrimEnd(_)
TrimEnd(s) ==
  IF s # <<>> /\ IsSpace(s[Len(s)]) THEN TrimEnd(SubSeq(s, 1, Len(s) - 1)) ELSE s

Trim(s) == TrimEnd(TrimStart(s))

\* String.prototype.split on the line feed: the lines of s, at least one (possibly empty).
RECURSIVE SplitFrom(_, _)
SplitFrom(s, cur) ==
  IF s = <<>> THEN <<cur>>
  ELSE IF Head(s) = NL THEN <<cur>> \o SplitFrom(Tail(s), <<>>)
  ELSE SplitFrom(Tail(s), Append(cur, Head(s)))

SplitLines(s) == SplitFrom(s, <<>>)

\* Letter runs that the model distinguishes, with their lower-case form.
ToLowerWord(w) ==
  CASE w = "sequenceDiagram" -> "sequencediagram"
    [] w = "classDiagram"    -> "classdiagram"
    [] w = "stateDiagram"    -> "statediagram"
    [] w = "erDiagram"       -> "erdiagram"
    [] w = "Flowchart"       -> "flowchart"
    [] w = "GRAPH"           -> "graph"
    [] w = "Gantt"           -> "gantt"
    [] w = "PIE"             -> "pie"
    [] w = "Journey"         -> "journey"
    [] w = "A"               -> "a"
    [] w = "B"               -> "b"
    [] OTHER                 -> w

\* String.prototype.toLowerCase
ToLowerCase(s) == [i \in 1..Len(s) |-> ToLowerWord(s[i])]

\* Letter runs that hold another letter run as a proper substring.
ProperSubwords == { <<"subgraph", "graph">> }

\* needle (one letter run) occurs inside lexeme tok
WordIncludes(tok, needle) == tok = needle \/ <<tok, needle>> \in ProperSubwords

\* String.prototype.includes for a needle that is one letter run
IncludesWord(s, needle) == \E i \in 1..Len(s) : WordIncludes(s[i], needle)

\* an includes that looks at the start of the string only
IncludesSeqAtStart(s, pat) ==
  Len(s) >= Len(pat) /\ SubSeq(s, 1, Len(pat)) = pat

\* an includes that looks at the end of the string only
IncludesSeqAtEnd(s, pat) ==
  Len(s) >= Len(pat) /\ SubSeq(s, Len(s) + 1 - Len(pat), Len(s)) = pat

\* String.prototype.includes for a needle of punctuation characters
IncludesSeq(s, pat) ==
  \E i \in 1..(Len(s) + 1 - Len(pat)) : SubSeq(s, i, i + Len(pat) - 1) = pat

\* String.prototype.startsWith
StartsWith(s, pat) == Len(s) >= Len(pat) /\ SubSeq(s, 1, Len(pat)) = pat

\* a count that looks at the first character only
CountCharFirstOnly(s, c) ==
  IF s # <<>> /\ Head(s) = c THEN 1 ELSE 0

\* number of occurrences of character c: (line.match(/c/g) || []).length
RECURSIVE CountChar(_, _)
CountChar(s, c) ==
  IF s = <<>> THEN 0
  ELSE (IF Head(s) = c THEN 1 ELSE 0) + CountChar(Tail(s), c)

\* \w+ : a lexeme made of word characters only
Punctuation == {BT, NL, SP, "\t", DQ, "[", "]", "(", ")", "{", "}", "-", ">", ":", "%", ";"}
IsWord(c) == c \notin Punctuation

Min(S) == CHOOSE x \in S : \A y \in S : x <= y

\* ----------------------------------------------------------------------
\* extractMermaidBlocks
\* ----------------------------------------------------------------------

\* the literal parts of the regular expression: three backticks, "mermaid",
\* a line feed; and a line feed, three backticks
FenceOpen == <<BT, BT, BT, "mermaid", NL>>
FenceClose == <<NL, BT, BT, BT>>

MatchAt(s, i, pat) ==
  i >= 1 /\ i + Len(pat) - 1 <= Len(s) /\ SubSeq(s, i, i + Len(pat) - 1) = pat

\* positions at or after from where the closing fence matches
ClosersFrom(content, from) ==
  { j \in from..Len(content) : MatchAt(content, j, FenceClose) }

\* regex.exec(content) with lastIndex = from - 1: the leftmost position where
\* the whole expression matches; the lazy group stops at the nearest closing
\* fence. <<>> when there is no match (exec returns null).
RegexExec(content, from) ==
  LET starts == { i \in from..Len(content) :
                    /\ MatchAt(content, i, FenceOpen)
                    /\ ClosersFrom(content, i + Len(FenceOpen)) # {} }
  IN IF starts = {} THEN <<>>
     ELSE LET i == Min(starts)
              j == Min(ClosersFrom(content, i + Len(FenceOpen)))
          IN << [start |-> i,
                 group |-> SubSeq(content, i + Len(FenceOpen), j - 1),
                 all   |-> SubSeq(content, i, j + Len(FenceClose) - 1),
                 last  |-> j + Len(FenceClose)] >>

\* detectMermaidType without the final return
DetectMermaidTypeNoDefault(content) ==
  LET firstLine == ToLowerCase(Trim(SplitLines(content)[1]))
  IN IF IncludesWord(firstLine, "sequencediagram") THEN "sequence"
     ELSE IF IncludesWord(firstLine, "flowchart") \/ IncludesWord(firstLine, "graph")
       THEN "flowchart"
     ELSE IF IncludesWord(firstLine, "classDiagram") THEN "class"
     ELSE IF IncludesWord(firstLine, "stateDiagram") THEN "state"
     ELSE IF IncludesWord(firstLine, "erDiagram") THEN "er"
     ELSE IF IncludesWord(firstLine, "gantt") THEN "gantt"
     ELSE IF IncludesWord(firstLine, "pie") THEN "pie"
     ELSE IF IncludesWord(firstLine, "journey") THEN "journey"
     ELSE "undefined"

\* type of a diagram from its first line
DetectMermaidType(content) ==
  LET firstLine == ToLowerCase(Trim(SplitLines(content)[1]))
  IN IF IncludesWord(firstLine, "sequencediagram") THEN "sequence"
     ELSE IF IncludesWord(firstLine, "flowchart") \/ IncludesWord(firstLine, "graph")
       THEN "flowchart"
     ELSE IF IncludesWord(firstLine, "classDiagram") THEN "class"
     ELSE IF IncludesWord(firstLine, "stateDiagram") THEN "state"
     ELSE IF IncludesWord(firstLine, "erDiagram") THEN "er"
     ELSE IF IncludesWord(firstLine, "gantt") THEN "gantt"
     ELSE IF IncludesWord(firstLine, "pie") THEN "pie"
     ELSE IF IncludesWord(firstLine, "journey") THEN "journey"
     ELSE "unknown"

\* a pushed block that keeps match[1] as it stands
MakeBlockUntrimmed(m, index) ==
  [index     |-> index,
   type      |-> DetectMermaidType(Trim(m.group)),
   content   |-> m.group,
   fullMatch |-> m.all,
   start     |-> m.start,
   stop      |-> m.last - 1]

\* one pushed block: match[1].trim(), its type, match[0]; start and stop are
\* match.index + 1 and regex.lastIndex, the span of match[0] in the content
MakeBlock(m, index) ==
  [index     |-> index,
   type      |-> DetectMermaidType(Trim(m.group)),
   content   |-> Trim(m.group),
   fullMatch |-> m.all,
   start     |-> m.start,
   stop      |-> m.last - 1]

\* index++ left out
NextIndexForgotten(index) == index

\* the value of index after a push
NextIndex(index) == index + 1

\* the while loop: exec, push, index++, until exec returns null
RECURSIVE ExtractLoop(_, _, _)
ExtractLoop(content, from, index) ==
  LET r == RegexExec(content, from)
  IN IF r = <<>> THEN <<>>
     ELSE <<MakeBlock(r[1], index)>> \o ExtractLoop(content, r[1].last, NextIndex(index))

ExtractMermaidBlocks(content) == ExtractLoop(content, 1, 1)

\* ----------------------------------------------------------------------
\* validateMermaidSyntax
\* ----------------------------------------------------------------------

ValidTypes ==
  <<"flowchart", "graph", "sequencediagram", "classDiagram", "stateDiagram",
    "erDiagram", "gantt", "pie", "journey">>

\* a test that wants the first line to be the type word and nothing else
HasValidTypeAlone(firstLine) ==
  \E k \in 1..Len(ValidTypes) : firstLine = <<ToLowerWord(ValidTypes[k])>>

\* validTypes.some(type => firstLine.includes(type.toLowerCase()))
HasValidType(firstLine) ==
  \E k \in 1..Len(ValidTypes) : IncludesWord(firstLine, ToLowerWord(ValidTypes[k]))

\* /\w+\(".*\(.*\).*"\):::/ tested on one line
NodeWithParensInText(line) ==
  \E i \in 1..Len(line) :
    /\ IsWord(line[i])
    /\ MatchAt(line, i + 1, <<"(", DQ>>)
    /\ \E j \in (i + 3)..Len(line) :
         /\ line[j] = "("
         /\ \E k \in (j + 1)..Len(line) :
              /\ line[k] = ")"
              /\ \E m \in (k + 1)..Len(line) :
                   MatchAt(line, m, <<DQ, ")", ":", ":", ":">>)

Err(n, msg) == [line |-> n, msg |-> msg]

\* the checks of the loop body on the trimmed line of number n, in order
LineErrors(line, n) ==
  (IF CountChar(line, "[") # CountChar(line, "]")
     THEN <<Err(n, "Unmatched square brackets")>> ELSE <<>>)
  \o (IF CountChar(line, "(") # CountChar(line, ")")
     THEN <<Err(n, "Unmatched parentheses")>> ELSE <<>>)
  \o (IF IncludesSeq(line, <<"(", "[">>) /\ IncludesSeq(line, <<"]", ")">>)
     THEN <<Err(n, "Invalid node syntax - cannot combine parentheses and brackets")>>
     ELSE <<>>)
  \o (IF NodeWithParensInText(line)
     THEN <<Err(n, "Invalid node syntax - parentheses in node text")>> ELSE <<>>)
  \o (IF IncludesSeq(line, <<"]", "{">>) \/ IncludesSeq(line, <<"}", "[">>)
     THEN <<Err(n, "Invalid node syntax - malformed bracket/brace combination")>>
     ELSE <<>>)
  \o (IF IncludesSeq(line, <<"-", "-", ">", "-">>)
        \/ IncludesSeq(line, <<"-", "-", "-", ">", ">">>)
     THEN <<Err(n, "Invalid arrow syntax")>> ELSE <<>>)

\* the for loop reporting the index i of a line, not i + 1
RECURSIVE LinesLoopZeroBased(_, _)
LinesLoopZeroBased(lines, from) ==
  IF from > Len(lines) THEN <<>>
  ELSE LET line == Trim(lines[from])
       IN (IF line = <<>> \/ StartsWith(line, <<"%", "%">>) THEN <<>>
           ELSE LineErrors(line, from - 1))
          \o LinesLoopZeroBased(lines, from + 1)

\* the for loop over lines i = from - 1 .. lines.length - 1
RECURSIVE LinesLoop(_, _)
LinesLoop(lines, from) ==
  IF from > Len(lines) THEN <<>>
  ELSE LET line == Trim(lines[from])
       IN (IF line = <<>> \/ StartsWith(line, <<"%", "%">>) THEN <<>>
           ELSE LineErrors(line, from))
          \o LinesLoop(lines, from + 1)

ValidateMermaidSyntax(mermaidContent) ==
  LET lines == SplitLines(mermaidContent)
      firstLine == ToLowerCase(Trim(lines[1]))
      errors == (IF ~HasValidType(firstLine)
                   THEN <<Err(0, "Missing or invalid diagram type declaration")>>
                   ELSE <<>>)
                \o LinesLoop(lines, 1)
  IN [isValid |-> Len(errors) = 0, errors |-> errors]

\* a catch clause that returns no error message
ValidationErrorNoDefects == [isValid |-> FALSE, errors |-> <<>>]

\* the catch clause: isValid false and the one message 'Validation error: ...'
ValidationError == [isValid |-> FALSE, errors |-> <<Err(0, "Validation error")>>]

\* validateMermaidSyntax on an argument whose split gives, at line badLine, a
\* value that is not a string (0: every line is a string). line.trim() raises
\* a TypeError at that line and control passes to the catch clause.
ValidateMermaidSyntaxOn(arg) ==
  IF arg.badLine # 0 THEN ValidationError ELSE ValidateMermaidSyntax(arg.content)


\* ----------------------------------------------------------------------
\* Bounds and the texts the gemini process can print
\* ----------------------------------------------------------------------

\* most stdout chunks one gemini process delivers
MaxChunks == 2
\* most follow-up rounds of one analyze command
MaxRounds == 1

\* a complete diagram block with a valid diagram
ChunkValid == FenceOpen \o <<"graph">> \o FenceClose
\* a complete diagram block with an unmatched bracket, and a final line feed
ChunkInvalid == FenceOpen \o <<"graph", NL, "A", "[">> \o FenceClose \o <<NL>>

Chunks == {ChunkValid, ChunkInvalid}

ExitCodes == {0, 1}

\* ----------------------------------------------------------------------
\* State
\* ----------------------------------------------------------------------

VARIABLES
  cli,               \* position in the analyze action and in askForFollowUp
  file,              \* the output file: [exists, content]
  currentContent,    \* askForFollowUp's parameter currentContent
  rounds,            \* follow-up rounds started so far
  pc,                \* position in validatorAgent
  firstDraft,        \* validatorAgent's parameter
  mermaidBlocks,     \* validatorAgent's mermaidBlocks
  validationResults, \* validatorAgent's validationResults
  validatorPrompt,   \* the prompt passed to runGeminiPrompt by validatorAgent
  rewriteCalls,      \* runGeminiPrompt calls made by this validatorAgent call
  recheckLog,        \* what the re-validation loop reported, per corrected block
  ret,               \* the value validatorAgent returned
  proc,              \* the gemini child process and the promise around it
  input,             \* the argument of a function applied on its own
  output,            \* what that function returned
  clone              \* the target of the analyze command and its clone directory

vars == <<cli, file, currentContent, rounds, pc, firstDraft, mermaidBlocks,
          validationResults, validatorPrompt, rewriteCalls, recheckLog, ret, proc,
          input, output, clone>>

fnVars == <<input, output>>
cliVars == <<cli, file, currentContent, rounds, fnVars, clone>>
vaVars == <<pc, firstDraft, mermaidBlocks, validationResults, validatorPrompt,
            rewriteCalls, recheckLog, ret>>

NoProc ==
  [state |-> "none", stdout |-> <<>>, n |-> 0, code |-> -1, errored |-> FALSE,
   promise |-> "none", value |-> <<>>]

NoFile == [exists |-> FALSE, content |-> <<>>]
\* the target is a local path: isCloned false, no clone directory
NoClone == [target |-> "path", isCloned |-> FALSE, keepClone |-> FALSE, onDisk |-> FALSE]
NoPrompt == [summary |-> <<>>, draft |-> <<>>]
NoRecheck == [ran |-> FALSE, perBlock |-> <<>>, allFixed |-> TRUE]

\* ----------------------------------------------------------------------
\* runGeminiPrompt / runGeminiAnalysis: spawn and the event handlers
\* ----------------------------------------------------------------------

\* new Promise(...) with spawn('gemini', args): stdout = '', promise pending
Spawn ==
  [state |-> "running", stdout |-> <<>>, n |-> 0, code |-> -1, errored |-> FALSE,
   promise |-> "pending", value |-> <<>>]

\* the error handler resolving with what has arrived so far
ErrorOutcomeResolves(stdout) == [promise |-> "resolved", value |-> Trim(stdout)]

\* the close handler: resolve(stdout.trim()) on code 0, reject otherwise
CloseOutcome(code, stdout) ==
  IF code = 0 THEN [promise |-> "resolved", value |-> Trim(stdout)]
  ELSE [promise |-> "rejected", value |-> <<>>]

\* the error handler: reject
ErrorOutcome(stdout) == [promise |-> "rejected", value |-> <<>>]

\* resolve and reject act on a pending promise only
Settle(p, outcome) ==
  IF p.promise = "pending"
    THEN [p EXCEPT !.promise = outcome.promise, !.value = outcome.value]
    ELSE p

\* geminiProcess.stdout.on('data'): stdout += chunk
OnData ==
  /\ proc.state = "running"
  /\ proc.n < MaxChunks
  /\ \E chunk \in Chunks :
       proc' = [proc EXCEPT !.stdout = @ \o chunk, !.n = @ + 1]
  /\ UNCHANGED <<cliVars, vaVars>>

\* geminiProcess.on('close'): emitted once, after the stdio streams have ended
OnClose ==
  /\ proc.state = "running"
  /\ \E code \in ExitCodes :
       proc' = Settle([proc EXCEPT !.state = "closed", !.code = code],
                      CloseOutcome(code, proc.stdout))
  /\ UNCHANGED <<cliVars, vaVars>>

\* geminiProcess.on('error'): spawn, kill or messaging failed
OnError ==
  /\ proc.state = "running"
  /\ ~proc.errored
  /\ proc' = Settle([proc EXCEPT !.errored = TRUE], ErrorOutcome(proc.stdout))
  /\ UNCHANGED <<cliVars, vaVars>>

\* ----------------------------------------------------------------------
\* validatorAgent
\* ----------------------------------------------------------------------

TerminalPcs == {"valid", "rechecked", "failed"}

\* validateMermaidSyntax on each block: {...block, isValid, errors}
ValidateBlocks(blocks) ==
  [k \in 1..Len(blocks) |->
     LET result == ValidateMermaidSyntax(blocks[k].content)
     IN [index   |-> blocks[k].index,
         type    |-> blocks[k].type,
         content |-> blocks[k].content,
         isValid |-> result.isValid,
         errors  |-> result.errors]]

\* validationResults.filter(r => !r.isValid).length
InvalidDiagrams(results) ==
  Cardinality({k \in 1..Len(results) : ~results[k].isValid})

\* the early return taken only when there is no diagram at all
NeedsRepairAnyBlock(results) == Len(results) # 0

\* the early return taken only when some diagram is valid
NeedsRepairUnlessSomeValid(results) ==
  ~\E k \in 1..Len(results) : results[k].isValid

\* the test that guards the early return: invalidDiagrams === 0 returns
NeedsRepair(results) == InvalidDiagrams(results) # 0

\* a summary that lists the invalid diagrams only
BuildPromptInvalidOnly(results, draft) ==
  [summary |-> SelectSeq([k \in 1..Len(results) |->
                            [index   |-> results[k].index,
                             type    |-> results[k].type,
                             isValid |-> results[k].isValid,
                             errors  |-> results[k].errors]],
                         LAMBDA r : ~r.isValid),
   draft |-> draft]

\* validationSummary (one entry per result) and the draft put in the prompt
BuildPrompt(results, draft) ==
  [summary |-> [k \in 1..Len(results) |->
                  [index   |-> results[k].index,
                   type    |-> results[k].type,
                   isValid |-> results[k].isValid,
                   errors  |-> results[k].errors]],
   draft |-> draft]

\* the re-validation left out
RecheckSkipped(validatedResult) == [ran |-> FALSE, perBlock |-> <<>>, allFixed |-> TRUE]

\* a re-validation that wants at least one diagram in the corrected content
RecheckWantsBlocks(validatedResult) ==
  LET correctedBlocks == ExtractMermaidBlocks(validatedResult)
      perBlock == [k \in 1..Len(correctedBlocks) |->
                     LET result == ValidateMermaidSyntax(correctedBlocks[k].content)
                     IN [index   |-> correctedBlocks[k].index,
                         isValid |-> result.isValid,
                         errors  |-> result.errors]]
  IN [ran      |-> TRUE,
      perBlock |-> perBlock,
      allFixed |-> /\ Len(perBlock) > 0
                   /\ \A k \in 1..Len(perBlock) : perBlock[k].isValid]

\* the re-validation of the corrected content: one report per corrected block
Recheck(validatedResult) ==
  LET correctedBlocks == ExtractMermaidBlocks(validatedResult)
      perBlock == [k \in 1..Len(correctedBlocks) |->
                     LET result == ValidateMermaidSyntax(correctedBlocks[k].content)
                     IN [index   |-> correctedBlocks[k].index,
                         isValid |-> result.isValid,
                         errors  |-> result.errors]]
  IN [ran      |-> TRUE,
      perBlock |-> perBlock,
      allFixed |-> \A k \in 1..Len(perBlock) : perBlock[k].isValid]

\* a retry: back to the repair when a diagram is still invalid
AfterRecheckRetry(allFixed) == IF allFixed THEN "rechecked" ELSE "checked"

\* the repaired document reported as if no repair had been needed
AfterRecheckAsValid(allFixed) == IF allFixed THEN "valid" ELSE "rechecked"

\* where validatorAgent goes after the re-validation: it returns
AfterRecheck(allFixed) == "rechecked"

\* the catch block returning what the process printed before it failed
CatchResultPartial(draft, stdout) == Trim(stdout)

\* what the catch block returns: the first draft
CatchResult(draft, stdout) == draft

\* the call validatorAgent(draft) up to the first await: the blocks are extracted
CallValidator(draft) ==
  /\ pc' = "extracted"
  /\ firstDraft' = draft
  /\ mermaidBlocks' = ExtractMermaidBlocks(draft)
  /\ validationResults' = <<>>
  /\ validatorPrompt' = NoPrompt
  /\ rewriteCalls' = 0
  /\ recheckLog' = NoRecheck
  /\ ret' = <<>>

\* validatorAgent is not running: its locals are gone
ResetValidator ==
  /\ pc' = "idle"
  /\ firstDraft' = <<>>
  /\ mermaidBlocks' = <<>>
  /\ validationResults' = <<>>
  /\ validatorPrompt' = NoPrompt
  /\ rewriteCalls' = 0
  /\ recheckLog' = NoRecheck
  /\ ret' = <<>>

\* the loop that validates each diagram
VA_Check ==
  /\ pc = "extracted"
  /\ pc' = "checked"
  /\ validationResults' = ValidateBlocks(mermaidBlocks)
  /\ UNCHANGED <<cliVars, firstDraft, mermaidBlocks, validatorPrompt, rewriteCalls,
                 recheckLog, ret, proc>>

\* all diagrams valid: return the first draft immediately
VA_ReturnValid ==
  /\ pc = "checked"
  /\ ~NeedsRepair(validationResults)
  /\ pc' = "valid"
  /\ ret' = firstDraft
  /\ UNCHANGED <<cliVars, firstDraft, mermaidBlocks, validationResults,
                 validatorPrompt, rewriteCalls, recheckLog, proc>>

\* build the prompt and call runGeminiPrompt
VA_Repair ==
  /\ pc = "checked"
  /\ NeedsRepair(validationResults)
  /\ pc' = "repairing"
  /\ validatorPrompt' = BuildPrompt(validationResults, firstDraft)
  /\ rewriteCalls' = rewriteCalls + 1
  /\ proc' = Spawn
  /\ UNCHANGED <<cliVars, firstDraft, mermaidBlocks, validationResults, recheckLog, ret>>

\* runGeminiPrompt resolved: re-validate the corrected content and return it
VA_Recheck ==
  /\ pc = "repairing"
  /\ proc.promise = "resolved"
  /\ recheckLog' = Recheck(proc.value)
  /\ pc' = AfterRecheck(recheckLog'.allFixed)
  /\ ret' = proc.value
  /\ UNCHANGED <<cliVars, firstDraft, mermaidBlocks, validationResults,
                 validatorPrompt, rewriteCalls, proc>>

\* runGeminiPrompt rejected: the catch block
VA_Catch ==
  /\ pc = "repairing"
  /\ proc.promise = "rejected"
  /\ pc' = "failed"
  /\ ret' = CatchResult(firstDraft, proc.stdout)
  /\ UNCHANGED <<cliVars, firstDraft, mermaidBlocks, validationResults,
                 validatorPrompt, rewriteCalls, recheckLog, proc>>

\* the value validatorAgent hands to its caller: the document, a string
ReturnValue == [document |-> ret]

\* ----------------------------------------------------------------------
\* the analyze action and askForFollowUp
\* ----------------------------------------------------------------------

\* the draft written instead of the validator's result
ContentToSaveDraft(draft, validated) == draft

\* what fs.writeFile is given: the validator's result, not the draft
ContentToSave(draft, validated) == validated

\* the user confirms the prompt: runGeminiAnalysis is started
Proceed ==
  /\ cli = "confirm"
  /\ cli' = "analysis"
  /\ proc' = Spawn
  /\ UNCHANGED <<file, currentContent, rounds, vaVars>>
  /\ UNCHANGED fnVars
  /\ UNCHANGED clone

\* the user cancels at the prompt confirmation
Cancel ==
  /\ cli = "confirm"
  /\ cli' = "returned"
  /\ UNCHANGED <<file, currentContent, rounds, vaVars, proc>>
  /\ UNCHANGED fnVars
  /\ UNCHANGED clone

\* runGeminiAnalysis resolved: the first draft goes to validatorAgent
AnalysisResolved ==
  /\ cli = "analysis"
  /\ proc.promise = "resolved"
  /\ cli' = "validate"
  /\ CallValidator(proc.value)
  /\ proc' = NoProc
  /\ UNCHANGED <<file, currentContent, rounds>>
  /\ UNCHANGED fnVars
  /\ UNCHANGED clone

\* runGeminiAnalysis rejected: the catch block exits the process
AnalysisRejected ==
  /\ cli = "analysis"
  /\ proc.promise = "rejected"
  /\ cli' = "exited"
  /\ proc' = NoProc
  /\ UNCHANGED <<file, currentContent, rounds, vaVars>>
  /\ UNCHANGED fnVars
  /\ UNCHANGED clone

\* a cleanup that pays no attention to --keep-clone
CleanupCloneAlways(c) == [c EXCEPT !.onDisk = FALSE]

\* if (isCloned && !options.keepClone) fs.remove(path.dirname(analysisPath))
CleanupClone(c) ==
  IF c.isCloned /\ ~c.keepClone THEN [c EXCEPT !.onDisk = FALSE] ELSE c

\* fs.writeFile(options.output, finalResult), then the cleanup of the clone
Save ==
  /\ cli = "validate"
  /\ pc \in TerminalPcs
  /\ file' = [exists |-> TRUE, content |-> ContentToSave(firstDraft, ret)]
  /\ clone' = CleanupClone(clone)
  /\ cli' = "saved"
  /\ UNCHANGED <<currentContent, rounds, vaVars, proc>>
  /\ UNCHANGED fnVars

\* fs.writeFile throws: the catch block exits the process
SaveFails ==
  /\ cli = "validate"
  /\ pc \in TerminalPcs
  /\ cli' = "exited"
  /\ UNCHANGED <<file, currentContent, rounds, vaVars, proc>>
  /\ UNCHANGED fnVars
  /\ UNCHANGED clone

\* the summary, fs.readFile and the call askForFollowUp(output, finalContent)
AskFirst ==
  /\ cli = "saved"
  /\ cli' = "ask"
  /\ currentContent' = file.content
  /\ ResetValidator
  /\ proc' = NoProc
  /\ UNCHANGED <<file, rounds>>
  /\ UNCHANGED fnVars
  /\ UNCHANGED clone

\* the user wants no follow-up, or the prompt is aborted: return
FollowUpDeclined ==
  /\ cli = "ask"
  /\ cli' = "returned"
  /\ UNCHANGED <<file, currentContent, rounds, vaVars, proc>>
  /\ UNCHANGED fnVars
  /\ UNCHANGED clone

\* the user enters a follow-up request: runGeminiPrompt(contextPrompt) is started
FollowUpAccepted ==
  /\ cli = "ask"
  /\ rounds < MaxRounds
  /\ cli' = "enhance"
  /\ rounds' = rounds + 1
  /\ proc' = Spawn
  /\ UNCHANGED <<file, currentContent, vaVars>>
  /\ UNCHANGED fnVars
  /\ UNCHANGED clone

\* the enhancement resolved: the enhanced content goes to validatorAgent
EnhanceResolved ==
  /\ cli = "enhance"
  /\ proc.promise = "resolved"
  /\ cli' = "fu_validate"
  /\ CallValidator(proc.value)
  /\ proc' = NoProc
  /\ UNCHANGED <<file, currentContent, rounds>>
  /\ UNCHANGED fnVars
  /\ UNCHANGED clone

\* a catch block that offers another round
EnhanceRejectedAsksAgain ==
  /\ cli = "enhance"
  /\ proc.promise = "rejected"
  /\ cli' = "ask"
  /\ proc' = NoProc
  /\ UNCHANGED <<file, currentContent, rounds, vaVars>>
  /\ UNCHANGED fnVars
  /\ UNCHANGED clone

\* the enhancement rejected: the inner catch block logs and returns
EnhanceRejected ==
  /\ cli = "enhance"
  /\ proc.promise = "rejected"
  /\ cli' = "returned"
  /\ proc' = NoProc
  /\ UNCHANGED <<file, currentContent, rounds, vaVars>>
  /\ UNCHANGED fnVars
  /\ UNCHANGED clone

\* fs.writeFile(outputFile, finalContent)
FollowUpSave ==
  /\ cli = "fu_validate"
  /\ pc \in TerminalPcs
  /\ file' = [exists |-> TRUE, content |-> ContentToSave(firstDraft, ret)]
  /\ cli' = "fu_saved"
  /\ UNCHANGED <<currentContent, rounds, vaVars, proc>>
  /\ UNCHANGED fnVars
  /\ UNCHANGED clone

\* fs.writeFile throws: the inner catch block logs and returns
FollowUpSaveFails ==
  /\ cli = "fu_validate"
  /\ pc \in TerminalPcs
  /\ cli' = "returned"
  /\ UNCHANGED <<file, currentContent, rounds, vaVars, proc>>
  /\ UNCHANGED fnVars
  /\ UNCHANGED clone

\* the recursive call askForFollowUp(outputFile, finalContent)
AskAgain ==
  /\ cli = "fu_saved"
  /\ cli' = "ask"
  /\ currentContent' = ret
  /\ ResetValidator
  /\ proc' = NoProc
  /\ UNCHANGED <<file, rounds>>
  /\ UNCHANGED fnVars
  /\ UNCHANGED clone

\* ----------------------------------------------------------------------
\* Specification
\* ----------------------------------------------------------------------

Init ==
  /\ cli = "confirm"
  /\ file = NoFile
  /\ currentContent = <<>>
  /\ rounds = 0
  /\ pc = "idle"
  /\ firstDraft = <<>>
  /\ mermaidBlocks = <<>>
  /\ validationResults = <<>>
  /\ validatorPrompt = NoPrompt
  /\ rewriteCalls = 0
  /\ recheckLog = NoRecheck
  /\ ret = <<>>
  /\ proc = NoProc
  /\ input = <<>>
  /\ output = <<>>
  /\ clone = NoClone

Next ==
  \/ Proceed
  \/ Cancel
  \/ AnalysisResolved
  \/ AnalysisRejected
  \/ Save
  \/ SaveFails
  \/ AskFirst
  \/ FollowUpDeclined
  \/ FollowUpAccepted
  \/ EnhanceResolved
  \/ EnhanceRejected
  \/ FollowUpSave
  \/ FollowUpSaveFails
  \/ AskAgain
  \/ VA_Check
  \/ VA_ReturnValid
  \/ VA_Repair
  \/ VA_Recheck
  \/ VA_Catch
  \/ OnData
  \/ OnClose
  \/ OnError

Spec == Init /\ [][Next]_vars

\* ----------------------------------------------------------------------
\* extractMermaidBlocks applied to bounded documents
\* ----------------------------------------------------------------------

\* most segments of a document
MaxSegs == 6

\* the pieces documents are made of: an opening fence, a closing fence, a line
\* feed, a word, and the tail of an opening fence
Segments == {FenceOpen, FenceClose, <<NL>>, <<"A">>, <<"mermaid", NL>>}

RECURSIVE Flatten(_)
Flatten(ss) == IF ss = <<>> THEN <<>> ELSE Head(ss) \o Flatten(Tail(ss))

\* the documents of at most max segments
ExtractInputs(max) ==
  UNION { { Flatten(ss) : ss \in [1..n -> Segments] } : n \in 0..max }

InitExtract ==
  /\ cli = "extract"
  /\ file = NoFile
  /\ currentContent = <<>>
  /\ rounds = 0
  /\ pc = "idle"
  /\ firstDraft \in ExtractInputs(MaxSegs)
  /\ mermaidBlocks = <<>>
  /\ validationResults = <<>>
  /\ validatorPrompt = NoPrompt
  /\ rewriteCalls = 0
  /\ recheckLog = NoRecheck
  /\ ret = <<>>
  /\ proc = NoProc
  /\ input = <<>>
  /\ output = <<>>
  /\ clone = NoClone

\* const mermaidBlocks = extractMermaidBlocks(firstDraft)
ExtractStep ==
  /\ cli = "extract"
  /\ pc = "idle"
  /\ pc' = "extracted"
  /\ mermaidBlocks' = ExtractMermaidBlocks(firstDraft)
  /\ UNCHANGED <<cliVars, firstDraft, validationResults, validatorPrompt,
                 rewriteCalls, recheckLog, ret, proc>>

NextExtract == ExtractStep

SpecExtract == InitExtract /\ [][NextExtract]_vars

\* nothing has been saved, validated or spawned yet
Untouched ==
  /\ file = NoFile
  /\ currentContent = <<>>
  /\ rounds = 0
  /\ mermaidBlocks = <<>>
  /\ validationResults = <<>>
  /\ validatorPrompt = NoPrompt
  /\ rewriteCalls = 0
  /\ recheckLog = NoRecheck
  /\ ret = <<>>
  /\ proc = NoProc
  /\ clone = NoClone

\* ----------------------------------------------------------------------
\* extractMermaidBlocks on documents of three diagram fences, the second
\* one without a closing fence
\* ----------------------------------------------------------------------

\* most lexemes in the text of one diagram
MaxBody == 2

\* diagram texts of at most max lexemes, with no fence in them
Bodies(max) == UNION { [1..n -> {"A", "B", NL}] : n \in 1..max }

\* what stands between the unterminated diagram's text and the third opening
\* fence: the end of a line, or a blank when the fence is not at a line start
BeforeThird == { <<NL>>, <<SP>> }

\* a terminated block, the opening fence and text of an unterminated one,
\* and a terminated block
ThreeFences(p) ==
  FenceOpen \o p.c1 \o FenceClose \o <<NL>>
    \o FenceOpen \o p.c2 \o p.sep
    \o FenceOpen \o p.c3 \o FenceClose

InitUnterminated ==
  /\ cli = "extract"
  /\ pc = "idle"
  /\ input \in [c1 : Bodies(MaxBody), c2 : Bodies(MaxBody), c3 : Bodies(MaxBody),
                sep : BeforeThird]
  /\ firstDraft = ThreeFences(input)
  /\ output = <<>>
  /\ Untouched

SpecUnterminated == InitUnterminated /\ [][NextExtract]_vars

\* ----------------------------------------------------------------------
\* validatorAgent called on bounded documents
\* ----------------------------------------------------------------------

\* most segments in a first draft
MaxDraftSegs == 3

InitDraft ==
  /\ cli = "validate"
  /\ pc = "idle"
  /\ firstDraft \in ExtractInputs(MaxDraftSegs)
  /\ input = <<>>
  /\ output = <<>>
  /\ Untouched

\* validatorAgent(firstDraft, ...) is called
VA_Call ==
  /\ cli = "validate"
  /\ pc = "idle"
  /\ CallValidator(firstDraft)
  /\ UNCHANGED <<cliVars, proc>>

NextDraft ==
  \/ VA_Call
  \/ VA_Check
  \/ VA_ReturnValid
  \/ VA_Repair
  \/ VA_Recheck
  \/ VA_Catch
  \/ OnData
  \/ OnClose
  \/ OnError

SpecDraft == InitDraft /\ [][NextDraft]_vars

\* ----------------------------------------------------------------------
\* detectMermaidType and validateMermaidSyntax applied to bounded contents
\* ----------------------------------------------------------------------

\* most lexemes in the bracket line of a content
MaxBrackets == 3

\* the diagram type words, in the spellings the model distinguishes
Keywords ==
  {"sequenceDiagram", "sequencediagram", "flowchart", "Flowchart", "graph", "GRAPH",
   "subgraph", "classDiagram", "classdiagram", "stateDiagram", "statediagram",
   "erDiagram", "erdiagram", "gantt", "Gantt", "pie", "PIE", "journey", "Journey", "A"}

\* what stands before the type word: nothing, a comment line, a comment line
\* and a blank line, or a word on the same line
Leads == { <<>>, <<"%", "%", SP, "A", NL>>, <<"%", "%", NL, NL>>, <<"A", SP>> }

\* what follows the type word
Rests == { <<>>, <<SP, "A">>, <<NL, "A", "[">> }

KeywordContents == { pre \o <<kw>> \o suf : pre \in Leads, kw \in Keywords, suf \in Rests }

\* lines of brackets, parentheses and a word, of at most max lexemes
BracketLines(max) == UNION { [1..n -> {"[", "]", "(", ")", "A"}] : n \in 0..max }

\* a flowchart of one bracket line, with or without a line before and after it
BracketContents(max) ==
  { Trim(<<"graph", NL>> \o pre \o b \o post) :
      pre \in { <<>>, <<"A", "[", NL>>, <<"%", "%", "[", NL>> },
      b \in BracketLines(max),
      post \in { <<>>, <<NL, SP, "A", "(">> } }

\* the contents of a block: match[1].trim(), so no white space at either end
Contents(max) == {<<>>} \cup KeywordContents \cup BracketContents(max)

\* the arguments: a content, and the line (never the first) at which split
\* gives a value that is not a string, 0 for none
Arguments(max) ==
  UNION { { [content |-> c, badLine |-> k] : k \in {0} \cup 2..Len(SplitLines(c)) } :
            c \in Contents(max) }

NoResult == [isValid |-> FALSE, errors |-> <<>>]

InitValidate ==
  /\ cli = "classify"
  /\ pc = "idle"
  /\ firstDraft = <<>>
  /\ input \in Arguments(MaxBrackets)
  /\ output = [type |-> "none", result |-> NoResult]
  /\ Untouched

\* const type = detectMermaidType(mermaidContent)
ClassifyStep ==
  /\ cli = "classify"
  /\ pc = "idle"
  /\ pc' = "typed"
  /\ output' = [output EXCEPT !.type = DetectMermaidType(input.content)]
  /\ UNCHANGED <<cli, file, currentContent, rounds, input, clone, firstDraft, mermaidBlocks,
                 validationResults, validatorPrompt, rewriteCalls, recheckLog, ret, proc>>

\* const validation = await validateMermaidSyntax(block.content)
ValidateStep ==
  /\ cli = "classify"
  /\ pc = "typed"
  /\ pc' = "validated"
  /\ output' = [output EXCEPT !.result = ValidateMermaidSyntaxOn(input)]
  /\ UNCHANGED <<cli, file, currentContent, rounds, input, clone, firstDraft, mermaidBlocks,
                 validationResults, validatorPrompt, rewriteCalls, recheckLog, ret, proc>>

NextValidate ==
  \/ ClassifyStep
  \/ ValidateStep

SpecValidate == InitValidate /\ [][NextValidate]_vars

\* ----------------------------------------------------------------------
\* detectMermaidType and validateMermaidSyntax applied to contents whose
\* lines are put together from node and arrow fragments
\* ----------------------------------------------------------------------

\* most fragments in the pattern line of a content
MaxParts == 3

\* x("A (A) A"): a rounded node whose quoted text holds parentheses
RoundedNode == <<"x", "(", DQ, "A", SP, "(", "A", ")", SP, "A", DQ, ")">>

\* pieces of node and arrow syntax
Fragments ==
  { <<"x">>, <<"x", "(", "[">>, <<"A", "]", ")">>, <<"-", "-", ">">>, <<"-">>, <<">">>,
    <<"]", "{">>, <<"}", "[">>, RoundedNode, <<":", ":", ":">> }

\* the lines of at most max fragments
PatternLines(max) ==
  UNION { { Flatten(ps) : ps \in [1..n -> Fragments] } : n \in 0..max }

\* the first lines: two type declarations and a line without a type word
FirstLines == { <<"graph">>, <<"flowchart", SP, "TD">>, <<"A">> }

\* a first line and one pattern line, with or without a blank line or a
\* comment line between them
PatternContents(max) ==
  { Trim(first \o <<NL>> \o pre \o line) :
      first \in FirstLines,
      pre \in { <<>>, <<NL>>, <<"%", "%", "-", "-", ">", "-", NL>> },
      line \in PatternLines(max) }

InitPatterns ==
  /\ cli = "classify"
  /\ pc = "idle"
  /\ firstDraft = <<>>
  /\ input \in { [content |-> c, badLine |-> 0] : c \in PatternContents(MaxParts) }
  /\ output = [type |-> "none", result |-> NoResult]
  /\ Untouched

SpecPatterns == InitPatterns /\ [][NextValidate]_vars

\* ----------------------------------------------------------------------
\* extractMermaidBlocks and the validation loop on documents of one block
\* ----------------------------------------------------------------------

\* most lines in the body of the block
MaxBlockLines == 3

\* the lines a body is made of: a type line, defective lines, a blank line,
\* a comment line
BlockLines == { <<"graph">>, <<"A", "[">>, <<>>, <<"%", "%", "[">>, <<SP, "A", "(">> }

\* Array.prototype.join on the line feed
RECURSIVE JoinLines(_)
JoinLines(ls) ==
  IF ls = <<>> THEN <<>>
  ELSE IF Len(ls) = 1 THEN ls[1]
  ELSE ls[1] \o <<NL>> \o JoinLines(Tail(ls))

\* the bodies of at most max lines
BlockBodies(max) == UNION { { JoinLines(ls) : ls \in [1..n -> BlockLines] } : n \in 1..max }

\* blank lines between the opening fence and the body
BlankLeads == { <<>>, <<NL>>, <<NL, NL>> }

InitBlock ==
  /\ cli = "validate"
  /\ pc = "idle"
  /\ input \in [lead : BlankLeads, body : BlockBodies(MaxBlockLines)]
  /\ firstDraft = FenceOpen \o input.lead \o input.body \o FenceClose
  /\ output = <<>>
  /\ Untouched

NextBlock ==
  \/ VA_Call
  \/ VA_Check

SpecBlock == InitBlock /\ [][NextBlock]_vars

\* ----------------------------------------------------------------------
\* the analyze action from the target check to the call of askForFollowUp,
\* for a local path and for a git URL, with and without --keep-clone
\* ----------------------------------------------------------------------

InitClone ==
  /\ cli = "start"
  /\ clone \in [target : {"url", "path"}, isCloned : {FALSE}, keepClone : BOOLEAN,
                onDisk : {FALSE}]
  /\ pc = "idle"
  /\ firstDraft = <<>>
  /\ file = NoFile
  /\ currentContent = <<>>
  /\ rounds = 0
  /\ mermaidBlocks = <<>>
  /\ validationResults = <<>>
  /\ validatorPrompt = NoPrompt
  /\ rewriteCalls = 0
  /\ recheckLog = NoRecheck
  /\ ret = <<>>
  /\ proc = NoProc
  /\ input = <<>>
  /\ output = <<>>

\* isGitUrl(targetPath): cloneRepository resolved, isCloned = true
CloneRepository ==
  /\ cli = "start"
  /\ clone.target = "url"
  /\ clone' = [clone EXCEPT !.isCloned = TRUE, !.onDisk = TRUE]
  /\ cli' = "prepare"
  /\ UNCHANGED <<file, currentContent, rounds, vaVars, proc, fnVars>>

\* cloneRepository rejected: the catch block exits the process; the clone
\* directory exists when ensureDir had made it
CloneFails ==
  /\ cli = "start"
  /\ clone.target = "url"
  /\ \E made \in BOOLEAN : clone' = [clone EXCEPT !.onDisk = made]
  /\ cli' = "exited"
  /\ UNCHANGED <<file, currentContent, rounds, vaVars, proc, fnVars>>

\* the target is a local path that exists
UseLocalPath ==
  /\ cli = "start"
  /\ clone.target = "path"
  /\ cli' = "prepare"
  /\ UNCHANGED <<file, currentContent, rounds, vaVars, proc, fnVars, clone>>

\* the target is a local path that does not exist: throw, catch, exit
PathMissing ==
  /\ cli = "start"
  /\ clone.target = "path"
  /\ cli' = "exited"
  /\ UNCHANGED <<file, currentContent, rounds, vaVars, proc, fnVars, clone>>

\* getGitDiffInfo and aiEnhancePrompt returned
Prepared ==
  /\ cli = "prepare"
  /\ cli' = "confirm"
  /\ UNCHANGED <<file, currentContent, rounds, vaVars, proc, fnVars, clone>>

\* aiEnhancePrompt or confirmEnhancedPrompt threw: the catch block exits
PrepareFails ==
  /\ cli = "prepare"
  /\ cli' = "exited"
  /\ UNCHANGED <<file, currentContent, rounds, vaVars, proc, fnVars, clone>>

\* fs.writeFile succeeded and fs.remove threw: the catch block exits; what is
\* left of the clone directory is not known
CleanupFails ==
  /\ cli = "validate"
  /\ pc \in TerminalPcs
  /\ clone.isCloned /\ ~clone.keepClone
  /\ file' = [exists |-> TRUE, content |-> ContentToSave(firstDraft, ret)]
  /\ \E left \in BOOLEAN : clone' = [clone EXCEPT !.onDisk = left]
  /\ cli' = "exited"
  /\ UNCHANGED <<currentContent, rounds, vaVars, proc, fnVars>>

NextClone ==
  \/ CloneRepository
  \/ CloneFails
  \/ UseLocalPath
  \/ PathMissing
  \/ Prepared
  \/ PrepareFails
  \/ Proceed
  \/ Cancel
  \/ AnalysisResolved
  \/ AnalysisRejected
  \/ VA_Check
  \/ VA_ReturnValid
  \/ VA_Repair
  \/ VA_Recheck
  \/ VA_Catch
  \/ OnData
  \/ OnClose
  \/ OnError
  \/ Save
  \/ SaveFails
  \/ CleanupFails

SpecClone == InitClone /\ [][NextClone]_vars

\* ----------------------------------------------------------------------
\* Properties
\* ----------------------------------------------------------------------

\* every diagram block of doc validates with no defect
AllBlocksValid(doc) ==
  LET blocks == ExtractMermaidBlocks(doc)
  IN \A k \in 1..Len(blocks) : ValidateMermaidSyntax(blocks[k].content).isValid

\* C1: short-circuit. While validatorAgent works on a draft whose blocks are all
\* valid, no runGeminiPrompt call is made and no gemini process exists, and
\* when it has returned, it returned through the early return with exactly
\* the draft.
C1_ShortCircuit ==
  pc # "idle" =>
     \/ /\ rewriteCalls = 0
        /\ proc = NoProc
        /\ pc \in {"extracted", "checked", "valid"}
        /\ (pc = "valid" => ret = firstDraft)
     \/ ~AllBlocksValid(firstDraft)

C1_Witness ==
  /\ pc = "valid"
  /\ Len(mermaidBlocks) = 2
  /\ ret = firstDraft
  /\ rewriteCalls = 0

\* C2: the repair never throws. When runGeminiPrompt has rejected, the only
\* step validatorAgent takes is the catch block, which returns exactly the
\* first draft to a caller that goes on normally; a returned fallback is
\* always the unmodified first draft.
C2_NeverThrows ==
  /\ [](pc = "failed" => (ret = firstDraft /\ proc.promise = "rejected"))
  /\ [][(pc = "repairing" /\ proc.promise = "rejected" /\ pc' # pc) =>
          (pc' = "failed" /\ ret' = firstDraft /\ cli' = cli
           /\ cli \in {"validate", "fu_validate"})]_vars

C2_Witness ==
  /\ pc = "failed"
  /\ ret = firstDraft
  /\ proc.stdout # <<>>
  /\ Trim(proc.stdout) # firstDraft

\* C3: mandatory re-validation. Whenever validatorAgent has returned after a
\* runGeminiPrompt call that resolved, the re-validation has run on the returned
\* document: it reported one entry per block extracted from that document, in
\* order, each with that block's validity.
C3_Revalidated ==
  (pc \in TerminalPcs /\ proc.promise = "resolved") =>
     LET blocks == ExtractMermaidBlocks(ret)
     IN /\ recheckLog.ran
        /\ ret = proc.value
        /\ Len(recheckLog.perBlock) = Len(blocks)
        /\ \A k \in 1..Len(blocks) :
             /\ recheckLog.perBlock[k].index = k
             /\ recheckLog.perBlock[k].isValid =
                  ValidateMermaidSyntax(blocks[k].content).isValid

C3_Witness ==
  /\ pc = "rechecked"
  /\ Len(recheckLog.perBlock) = 2
  /\ recheckLog.perBlock[1].isValid
  /\ ~recheckLog.perBlock[2].isValid

\* how far validatorAgent has got
Rank(p) ==
  CASE p = "idle" -> 0
    [] p = "extracted" -> 1
    [] p = "checked" -> 2
    [] p = "repairing" -> 3
    [] OTHER -> 4

\* C4: at most one rewrite call per validatorAgent call, and no way back:
\* every step of validatorAgent moves strictly forward (a returned call goes
\* back to idle only), and while it waits for the rewrite the promise is
\* settled or the process can still close.
C4_OneRoundTrip ==
  /\ [](rewriteCalls <= 1)
  /\ []((pc = "repairing" /\ proc.promise = "pending") => proc.state = "running")
  /\ [][pc' # pc =>
          \/ Rank(pc') > Rank(pc)
          \/ (pc \in TerminalPcs /\ pc' = "idle")]_vars

C4_Witness ==
  /\ pc = "rechecked"
  /\ ~recheckLog.allFixed
  /\ rewriteCalls = 1

\* C5: best effort. After a successful rewrite whose re-validation still finds
\* an invalid block, the returned value holds the rewritten document together
\* with the residual defects.
C5_BestEffortWithDefects ==
  (pc = "rechecked" /\ ~recheckLog.allFixed) =>
     /\ ReturnValue.document = proc.value
     /\ "defects" \in DOMAIN ReturnValue
     /\ ReturnValue.defects = [k \in 1..Len(recheckLog.perBlock) |->
                                 recheckLog.perBlock[k].errors]

\* C6 as stated: a call that has returned either found every block valid or
\* went through the re-validation.
C6_OnlyValidOrRechecked ==
  pc \in TerminalPcs => (pc = "valid" \/ recheckLog.ran)

\* the steps of validatorAgent
PhaseEdges ==
  { <<"idle", "extracted">>, <<"extracted", "checked">>, <<"checked", "valid">>,
    <<"checked", "repairing">>, <<"repairing", "rechecked">>,
    <<"repairing", "failed">>, <<"valid", "idle">>, <<"rechecked", "idle">>,
    <<"failed", "idle">> }

\* C6 amended: the order is Extracted, Checked, then Valid (terminal), or
\* Repairing followed by Rechecked (terminal; the re-validation ran) or, when
\* the rewrite failed, by the fallback return of the first draft (terminal, no
\* re-validation).
C6_PhaseOrder ==
  /\ [][pc' # pc => <<pc, pc'>> \in PhaseEdges]_vars
  /\ [](pc = "valid" => (rewriteCalls = 0 /\ ~recheckLog.ran))
  /\ [](pc = "rechecked" => (rewriteCalls = 1 /\ recheckLog.ran))
  /\ [](pc = "failed" => (rewriteCalls = 1 /\ ~recheckLog.ran /\ ret = firstDraft))

C6_Witness ==
  /\ pc = "failed"
  /\ ~recheckLog.ran
  /\ proc.state = "closed"
  /\ proc.code = 1

\* C7 as stated: the returned document is the first draft or everything the
\* process printed before it closed with code 0.
C7_InputOrWholeOutput ==
  pc \in TerminalPcs =>
     \/ ret = firstDraft
     \/ (proc.state = "closed" /\ proc.code = 0 /\ ret = proc.stdout)

\* C7 amended: the returned document is the first draft or everything the
\* process printed before it closed with code 0, with the white space at
\* both ends removed.
C7_InputOrTrimmedWholeOutput ==
  pc \in TerminalPcs =>
     \/ ret = firstDraft
     \/ (proc.state = "closed" /\ proc.code = 0 /\ ret = Trim(proc.stdout))

C7_Witness ==
  /\ pc = "rechecked"
  /\ proc.n = 2
  /\ ret # firstDraft
  /\ ret # proc.stdout
  /\ ret = Trim(proc.stdout)

\* what the caller holds after the call: the argument and the returned value
CallerView == [input |-> firstDraft, result |-> ReturnValue]

\* what the caller holds after a call on the same draft whose rewrite failed
ViewAfterFailure ==
  [input |-> firstDraft, result |-> [document |-> CatchResult(firstDraft, <<>>)]]

\* C8: the outcome can be told from the result. A call that repaired and
\* rechecked leaves the caller with something else than a call on the same
\* draft whose rewrite failed.
C8_Distinguishable ==
  pc = "rechecked" => CallerView # ViewAfterFailure

\* C9: the output file is written only with what validatorAgent returned for
\* the round: every change of the file happens when validatorAgent has
\* returned and stores its return value, in the analyze action and in every
\* follow-up round.
C9_SavedIsValidated ==
  /\ [][file' # file => (pc \in TerminalPcs /\ file'.exists /\ file'.content = ret)]_vars
  /\ []((cli \in {"saved", "fu_saved"}) => (file.exists /\ file.content = ret))

C9_Witness ==
  /\ cli = "fu_saved"
  /\ pc = "rechecked"
  /\ file.content = ret
  /\ ret # firstDraft

\* C10: extraction is order-preserving and index-stable. The blocks carry the
\* indices 1, 2, ..., n; every block's span is where its text stands in the
\* document, from an opening fence to a closing fence; and every block starts
\* after the block before it has ended.
C10_OrderedDisjointSpans ==
  pc = "extracted" =>
     \A k \in 1..Len(mermaidBlocks) :
        LET b == mermaidBlocks[k]
        IN /\ b.index = k
           /\ 1 <= b.start /\ b.start <= b.stop /\ b.stop <= Len(firstDraft)
           /\ SubSeq(firstDraft, b.start, b.stop) = b.fullMatch
           /\ StartsWith(b.fullMatch, FenceOpen)
           /\ MatchAt(firstDraft, b.stop + 1 - Len(FenceClose), FenceClose)
           /\ (k > 1 => b.start > mermaidBlocks[k - 1].stop)

C10_Witness ==
  /\ cli = "extract"
  /\ pc = "extracted"
  /\ Len(mermaidBlocks) = 2
  /\ mermaidBlocks[1].content # <<>>
  /\ mermaidBlocks[1].start > 1
  /\ mermaidBlocks[2].start > mermaidBlocks[1].stop + 1

\* the text between the fences of a block's span
BetweenFences(b) ==
  SubSeq(b.fullMatch, Len(FenceOpen) + 1, Len(b.fullMatch) - Len(FenceClose))

ThirdFenceAt(p) ==
  2 * Len(FenceOpen) + Len(FenceClose) + 1 + Len(p.c1) + Len(p.c2) + Len(p.sep) + 1

\* C12: unterminated fences are skipped. For a document of three diagram
\* fences whose second opening fence has no closing fence before the third
\* opening fence, extraction returns exactly two blocks, the first and the
\* third, and the text of the second is in no returned block.
C12_UnterminatedSkipped ==
  (pc = "extracted" /\ input # <<>>) =>
     /\ Len(mermaidBlocks) = 2
     /\ mermaidBlocks[1].content = Trim(input.c1)
     /\ mermaidBlocks[2].content = Trim(input.c3)
     /\ mermaidBlocks[2].start = ThirdFenceAt(input)

\* doc holds no opening fence with a closing fence after it
NoFencePair(doc) ==
  ~\E i \in 1..Len(doc) : \E j \in (i + Len(FenceOpen))..Len(doc) :
      MatchAt(doc, i, FenceOpen) /\ MatchAt(doc, j, FenceClose)

\* C13: for a document with no diagram fence pair, extractMermaidBlocks
\* returns the empty sequence, validatorAgent counts zero invalid diagrams,
\* makes no rewrite call (no process is ever spawned) and returns the input
\* unchanged.
C13_NoBlocksReturnsInput ==
  (cli = "validate" /\ pc # "idle" /\ NoFencePair(firstDraft)) =>
     /\ mermaidBlocks = <<>>
     /\ rewriteCalls = 0
     /\ proc = NoProc
     /\ pc \in {"extracted", "checked", "valid"}
     /\ (pc \in {"checked", "valid"} => InvalidDiagrams(validationResults) = 0)
     /\ (pc = "valid" => ret = firstDraft)

C13_Witness ==
  /\ cli = "validate"
  /\ pc = "valid"
  /\ NoFencePair(firstDraft)
  /\ \E i \in 1..Len(firstDraft) : MatchAt(firstDraft, i, FenceOpen)
  /\ ret = firstDraft

\* the kind the classifier is to return for a type word, given in lower case
KindOfKeyword(w) ==
  CASE w = "sequencediagram" -> "sequence"
    [] w = "flowchart"       -> "flowchart"
    [] w = "graph"           -> "flowchart"
    [] w = "classdiagram"    -> "class"
    [] w = "statediagram"    -> "state"
    [] w = "erdiagram"       -> "entity-relationship"
    [] w = "gantt"           -> "gantt"
    [] w = "pie"             -> "pie"
    [] w = "journey"         -> "journey"
    [] OTHER                 -> "unknown"

\* the type words proper, in every spelling
TypeWords == { kw \in Keywords : KindOfKeyword(ToLowerWord(kw)) # "unknown" }

\* C14: the classifier maps the type word on the first line to its kind,
\* whatever the case of its letters: sequenceDiagram to sequence, flowchart
\* and graph to flowchart, classDiagram to class, stateDiagram to state,
\* erDiagram to entity-relationship, gantt, pie and journey to themselves.
C14_KeywordToKind ==
  (cli = "classify" /\ pc # "idle") =>
     \A kw \in TypeWords : \A suf \in Rests :
        input.content = <<kw>> \o suf =>
           output.type = KindOfKeyword(ToLowerWord(kw))

\* number of 'Missing or invalid diagram type declaration' messages
MissingType(errors) ==
  Cardinality({ k \in 1..Len(errors) :
                  errors[k].msg = "Missing or invalid diagram type declaration" })

\* C15: the missing-type defect is reported exactly when the classifier
\* returns unknown for the same content, and at most once.
C15_MissingTypeIffUnknown ==
  (cli = "classify" /\ pc = "validated" /\ input.badLine = 0) =>
     /\ MissingType(output.result.errors) <= 1
     /\ (MissingType(output.result.errors) = 1) <=> (output.type = "unknown")

\* the leads that are comment lines
CommentLeads == { pre \in Leads : StartsWith(pre, <<"%", "%">>) }

\* C16: only the first line that is neither blank nor a comment counts. A
\* content that starts with comment (and blank) lines followed by a line with
\* a type word has a kind other than unknown and gets no missing-type defect.
C16_LeadingCommentsSkipped ==
  (cli = "classify" /\ pc = "validated" /\ input.badLine = 0) =>
     \A pre \in CommentLeads : \A kw \in TypeWords : \A suf \in Rests :
        input.content = pre \o <<kw>> \o suf =>
           /\ output.type # "unknown"
           /\ MissingType(output.result.errors) = 0

\* the fixed enumeration of diagram kinds
DiagramKinds ==
  {"flowchart", "sequence", "class", "state", "entity-relationship", "gantt", "pie",
   "journey", "unknown"}

\* C17: the classifier is total: applied to any content, the empty one
\* included, it returns, and what it returns is a kind of the fixed
\* enumeration.
C17_TotalInEnumeration ==
  /\ [][(cli = "classify" /\ pc = "idle") =>
          (pc' = "typed" /\ output'.type \in DiagramKinds)]_vars
  /\ []((cli = "classify" /\ pc # "idle") => output.type \in DiagramKinds)

C17_Witness ==
  /\ cli = "classify"
  /\ pc = "typed"
  /\ input.content = <<>>
  /\ output.type = "unknown"

\* C18: isValid is true exactly when there is no defect, whether
\* validateMermaidSyntax returned from its try block or from its catch clause.
C18_ValidIffNoDefects ==
  (cli = "classify" /\ pc = "validated") =>
     (output.result.isValid <=> output.result.errors = <<>>)

C18_Witness ==
  /\ cli = "classify"
  /\ pc = "validated"
  /\ input.badLine # 0
  /\ ~output.result.isValid
  /\ Len(output.result.errors) = 1

\* the elements of a sequence
Range(seq) == { seq[k] : k \in 1..Len(seq) }

Positions(line, c) == { i \in 1..Len(line) : line[i] = c }

\* the pairs of a line that do not balance
Unbalanced(line) ==
  (IF Cardinality(Positions(line, "[")) # Cardinality(Positions(line, "]"))
     THEN {"Unmatched square brackets"} ELSE {})
  \cup (IF Cardinality(Positions(line, "(")) # Cardinality(Positions(line, ")"))
     THEN {"Unmatched parentheses"} ELSE {})

\* the reported defects of line n with message msg
Reported(errors, n, msgs) ==
  { k \in 1..Len(errors) : errors[k].line = n /\ errors[k].msg \in msgs }

\* the line is skipped by the loop: empty after trimming, or a comment
Skipped(line) == Trim(line) = <<>> \/ StartsWith(Trim(line), <<"%", "%">>)

BracketMessages == {"Unmatched square brackets", "Unmatched parentheses"}

\* C20 as stated: a line that is neither blank nor a comment gets exactly one
\* unmatched-brackets defect when its square brackets or its parentheses do
\* not balance, also when neither pair balances, and none when both balance.
C20_OneDefectPerLine ==
  (cli = "classify" /\ pc = "validated" /\ input.badLine = 0) =>
     \A n \in 1..Len(SplitLines(input.content)) :
        LET line == SplitLines(input.content)[n]
        IN ~Skipped(line) =>
             Cardinality(Reported(output.result.errors, n, BracketMessages))
               = (IF Unbalanced(Trim(line)) # {} THEN 1 ELSE 0)

\* C20 amended: a line that is neither blank nor a comment gets one defect
\* for each pair that does not balance: 'Unmatched square brackets' exactly
\* when the counts of [ and ] differ, 'Unmatched parentheses' exactly when
\* the counts of ( and ) differ, so two defects when neither pair balances
\* and none when both balance. Blank lines and comment lines get none.
C20_OneDefectPerPair ==
  (cli = "classify" /\ pc = "validated" /\ input.badLine = 0) =>
     \A n \in 1..Len(SplitLines(input.content)) :
        LET line == SplitLines(input.content)[n]
        IN \A msg \in BracketMessages :
             Cardinality(Reported(output.result.errors, n, {msg}))
               = (IF ~Skipped(line) /\ msg \in Unbalanced(Trim(line)) THEN 1 ELSE 0)

C20_Witness ==
  /\ cli = "classify"
  /\ pc = "validated"
  /\ input.badLine = 0
  /\ \E n \in 1..Len(SplitLines(input.content)) :
       /\ Unbalanced(SplitLines(input.content)[n]) = BracketMessages
       /\ Cardinality(Reported(output.result.errors, n, BracketMessages)) = 2

\* pat stands somewhere in the line
Holds(line, pat) == \E i \in 1..Len(line) : MatchAt(line, i, pat)

\* the defects reported for line n
DefectsOfLine(errors, n) == SelectSeq(errors, LAMBDA e : e.line = n)

\* the line holds a malformed bracket/brace combination or a bad arrow
OtherPatterns(line) ==
  \/ Holds(line, <<"]", "{">>) \/ Holds(line, <<"}", "[">>)
  \/ Holds(line, <<"-", "-", ">", "-">>) \/ Holds(line, <<"-", "-", "-", ">", ">">>)
  \/ (Holds(line, RoundedNode) /\ Holds(line, <<":", ":", ":">>))

\* C21: mixed shape delimiters. A line that holds both ([ and ]), whose
\* square brackets and parentheses balance, and that holds none of the other
\* flagged patterns gets exactly one defect, the one about combining
\* parentheses and brackets, with the number of the line.
C21_MixedShapeOneDefect ==
  (cli = "classify" /\ pc = "validated" /\ input.badLine = 0) =>
     \A n \in 1..Len(SplitLines(input.content)) :
        LET line == Trim(SplitLines(input.content)[n])
        IN (/\ ~Skipped(line)
            /\ Holds(line, <<"(", "[">>) /\ Holds(line, <<"]", ")">>)
            /\ Unbalanced(line) = {}
            /\ ~OtherPatterns(line))
           => DefectsOfLine(output.result.errors, n)
                = <<Err(n, "Invalid node syntax - cannot combine parentheses and brackets")>>

C21_Witness ==
  /\ cli = "classify"
  /\ pc = "validated"
  /\ SplitLines(input.content)[1] = <<"flowchart", SP, "TD">>
  /\ Len(SplitLines(input.content)) = 3
  /\ SplitLines(input.content)[3] = <<"x", "(", "[", "A", "]", ")">>
  /\ output.result.errors
       = <<Err(3, "Invalid node syntax - cannot combine parentheses and brackets")>>

\* the 'Invalid arrow syntax' defects reported for line n
ArrowDefects(errors, n) == Reported(errors, n, {"Invalid arrow syntax"})

\* C22 as stated: a line that holds a double-dash arrow followed by a stray
\* dash (-->-) or by a doubled arrow head (-->>) gets exactly one invalid
\* arrow defect, with the number of the line.
C22_StrayDashOrDoubledHead ==
  (cli = "classify" /\ pc = "validated" /\ input.badLine = 0) =>
     \A n \in 1..Len(SplitLines(input.content)) :
        LET line == Trim(SplitLines(input.content)[n])
        IN (/\ ~Skipped(line)
            /\ (Holds(line, <<"-", "-", ">", "-">>) \/ Holds(line, <<"-", "-", ">", ">">>)))
           => Cardinality(ArrowDefects(output.result.errors, n)) = 1

\* C22 amended: a line that is neither blank nor a comment gets exactly one
\* invalid arrow defect, with the number of the line, when it holds -->- or
\* --->> (three dashes and two arrow heads), and none otherwise: a
\* double-dash arrow with a doubled head (-->>) is not flagged unless a
\* third dash stands before it.
C22_StrayDashOrTripleDashDoubledHead ==
  (cli = "classify" /\ pc = "validated" /\ input.badLine = 0) =>
     \A n \in 1..Len(SplitLines(input.content)) :
        LET line == Trim(SplitLines(input.content)[n])
        IN Cardinality(ArrowDefects(output.result.errors, n))
             = (IF /\ ~Skipped(line)
                   /\ (\/ Holds(line, <<"-", "-", ">", "-">>)
                       \/ Holds(line, <<"-", "-", "-", ">", ">">>))
                THEN 1 ELSE 0)

C22_Witness ==
  /\ cli = "classify"
  /\ pc = "validated"
  /\ Len(SplitLines(input.content)) = 2
  /\ SplitLines(input.content)[2] = <<"x", "-", "-", ">", "-">>
  /\ output.result.errors = <<Err(2, "Invalid arrow syntax")>>

\* C23: nested parentheses in rounded nodes. Every line that holds a rounded
\* node whose quoted text holds parentheses gets the parentheses-in-node-text
\* defect, whether or not anything follows the node on the line.
C23_RoundedNodeFlagged ==
  (cli = "classify" /\ pc = "validated" /\ input.badLine = 0) =>
     \A n \in 1..Len(SplitLines(input.content)) :
        LET line == Trim(SplitLines(input.content)[n])
        IN (~Skipped(line) /\ Holds(line, RoundedNode))
           => Reported(output.result.errors, n,
                       {"Invalid node syntax - parentheses in node text"}) # {}

\* the line is blank, a comment, or balanced and free of every flagged pattern
Clean(line) ==
  \/ Skipped(line)
  \/ /\ Unbalanced(Trim(line)) = {}
     /\ ~(Holds(line, <<"(", "[">>) /\ Holds(line, <<"]", ")">>))
     /\ ~OtherPatterns(line)

\* the line holds a diagram type word, in any case
DeclaresType(line) ==
  \E i \in 1..Len(line) : KindOfKeyword(ToLowerWord(line[i])) # "unknown"

\* C24: a clean block is valid. When the first line declares a recognised
\* type and every line that is neither blank nor a comment has balanced
\* square brackets and parentheses and none of the flagged patterns,
\* validateMermaidSyntax returns isValid true and no defect.
C24_CleanBlockValid ==
  (cli = "classify" /\ pc = "validated" /\ input.badLine = 0) =>
     ((/\ DeclaresType(SplitLines(input.content)[1])
       /\ \A n \in 1..Len(SplitLines(input.content)) :
            Clean(SplitLines(input.content)[n]))
      => output.result = [isValid |-> TRUE, errors |-> <<>>])

C24_Witness ==
  /\ cli = "classify"
  /\ pc = "validated"
  /\ input.content = <<"flowchart", SP, "TD", NL, "%", "%", "-", "-", ">", "-", NL,
                       "x", "-", "-", ">", "x">>
  /\ output.result.isValid
  /\ output.result.errors = <<>>

\* position i of doc is the start of a line
AtLineStart(doc, i) == i = 1 \/ doc[i - 1] = NL

\* C25: fence recognition is anchored to line starts. For every extracted
\* block the three backticks of the opening marker and the three backticks
\* of the closing marker both begin at the start of a line; an opening
\* marker in the middle of a line starts no block.
C25_FencesAtLineStart ==
  pc = "extracted" =>
     \A k \in 1..Len(mermaidBlocks) :
        /\ AtLineStart(firstDraft, mermaidBlocks[k].start)
        /\ AtLineStart(firstDraft, mermaidBlocks[k].stop - 2)

\* every defect with a line number stands for an unbalanced pair of that
\* line of lines, and every unbalanced pair of a line that is neither blank
\* nor a comment is reported with the number of the line
NumberedBy(errors, lines) ==
  /\ \A k \in 1..Len(errors) :
        errors[k].line # 0 =>
           /\ errors[k].line \in 1..Len(lines)
           /\ ~Skipped(lines[errors[k].line])
           /\ errors[k].msg \in Unbalanced(Trim(lines[errors[k].line]))
  /\ \A n \in 1..Len(lines) : \A msg \in BracketMessages :
        (~Skipped(lines[n]) /\ msg \in Unbalanced(Trim(lines[n])))
           => Reported(errors, n, {msg}) # {}

C27_PromptFromFirstCheck ==
  /\ []((pc \in {"repairing", "rechecked", "failed"}) =>
          /\ rewriteCalls = 1
          /\ validatorPrompt.draft = firstDraft
          /\ Len(validatorPrompt.summary) = Len(mermaidBlocks)
          /\ \A k \in 1..Len(mermaidBlocks) :
                /\ validatorPrompt.summary[k].index = k
                /\ validatorPrompt.summary[k].type = mermaidBlocks[k].type
                /\ validatorPrompt.summary[k].isValid = validationResults[k].isValid
                /\ validatorPrompt.summary[k].errors = validationResults[k].errors
                /\ validatorPrompt.summary[k].isValid
                     <=> validatorPrompt.summary[k].errors = <<>>)
  /\ []((pc \in {"idle", "extracted", "checked", "valid"}) => validatorPrompt = NoPrompt)
  /\ [][(pc \in {"repairing", "rechecked", "failed"} /\ pc' \notin {"idle", "extracted"})
          => (validatorPrompt' = validatorPrompt)]_vars

C27_Witness ==
  /\ pc = "rechecked"
  /\ Len(validatorPrompt.summary) = 2
  /\ validatorPrompt.summary[1].isValid
  /\ ~validatorPrompt.summary[2].isValid
  /\ validatorPrompt.draft = firstDraft
  /\ validatorPrompt.draft # ret

\* C28: a rewrite without diagrams passes the re-validation vacuously. When
\* the rewrite succeeded and the rewritten document holds no diagram block,
\* validatorAgent reports every diagram as fixed and returns the rewritten
\* document, although the first draft had an invalid block: the numbers of
\* blocks before and after the repair are not compared.
C28_NoBlocksAllFixed ==
  (pc = "rechecked" /\ NoFencePair(proc.value)) =>
     /\ recheckLog.ran
     /\ recheckLog.perBlock = <<>>
     /\ recheckLog.allFixed
     /\ ret = proc.value
     /\ Len(mermaidBlocks) > Len(recheckLog.perBlock)
     /\ InvalidDiagrams(validationResults) > 0

C28_Witness ==
  /\ pc = "rechecked"
  /\ proc.promise = "resolved"
  /\ NoFencePair(ret)
  /\ ret # firstDraft
  /\ Len(mermaidBlocks) = 2
  /\ recheckLog.allFixed

\* C29: a failed enhancement leaves the file alone. When runGeminiPrompt
\* rejects in a follow-up round, askForFollowUp returns: the output file
\* keeps the document saved last, no further round is offered and the
\* analyze command does not exit with an error. In a follow-up round the
\* file is written only when the enhancement has resolved and validatorAgent
\* has returned.
C29_FailedEnhancementKeepsFile ==
  /\ []((cli = "enhance") => (file.exists /\ file.content = currentContent))
  /\ [][(cli = "enhance" /\ proc.promise = "rejected" /\ cli' # cli)
          => (cli' = "returned" /\ file' = file /\ rounds' = rounds)]_vars
  /\ [][(cli = "returned") => (cli' = "returned" /\ file' = file)]_vars
  /\ [][(rounds >= 1 /\ file' # file)
          => (cli = "fu_validate" /\ pc \in TerminalPcs /\ cli' = "fu_saved"
              /\ file'.content = ret)]_vars

C29_Witness ==
  /\ cli = "enhance"
  /\ rounds = 1
  /\ proc.promise = "rejected"
  /\ proc.stdout # <<>>
  /\ file.exists
  /\ file.content = currentContent

\* C30: the clone is removed only where the output file has been written.
\* The clone directory goes away only in the step that writes the output
\* file, and only when the target was cloned and --keep-clone is not set;
\* after every other exit that follows a successful clone (the user cancels,
\* the preparation, the analysis or the save throws) the directory is still
\* on disk, and after a save it is on disk exactly when --keep-clone is set.
C30_CloneRemovedOnlyAfterSave ==
  /\ [][(clone.onDisk /\ ~clone'.onDisk)
          => (/\ cli = "validate" /\ pc \in TerminalPcs
              /\ clone.isCloned /\ ~clone.keepClone
              /\ file'.exists /\ file'.content = ret)]_vars
  /\ []((cli \in {"returned", "exited"} /\ clone.isCloned /\ ~file.exists)
          => clone.onDisk)
  /\ []((cli = "saved" /\ clone.isCloned) => (clone.onDisk <=> clone.keepClone))

C30_Witness ==
  /\ cli = "exited"
  /\ clone.isCloned
  /\ ~clone.keepClone
  /\ clone.onDisk
  /\ ~file.exists
  /\ pc \in TerminalPcs

====
